---- MODULE Spec2Model ----
(***************************************************************************)
(* A model of toil's leader message bus (src/src/toil/bus.py): the         *)
(* MessageBus with its PyPubSub listener table, MessageInbox /             *)
(* MessageBusConnection with their per-type queues, and the for_each       *)
(* generator with its swap / reverse / pop / re-queue protocol; and of the *)
(* batch system interface                                                  *)
(* (src/src/toil/batchSystems/abstractBatchSystem.py): the admission check *)
(* and the environment map of BatchSystemSupport, and the job life cycle   *)
(* that AbstractBatchSystem declares.                                      *)
(*                                                                         *)
(* A message is a record [type, id]; id is the position of the message in  *)
(* the sequence of all publishes, which stands for the identity of the     *)
(* Python object.  Variables whose comment says "history" are not state of *)
(* the program: they record what happened so that properties can be        *)
(* stated.                                                                 *)
(***************************************************************************)
EXTENDS Integers, Sequences, FiniteSets, TLC

\* ------------------------------------------------------------------ bounds
\* Total number of publish calls in a run.
MaxPublish == 3

\* Two of the eight message classes of bus.py.
MessageTypes == {"JobCompletedMessage", "JobFailedMessage"}

\* Connections made with MessageBus.connect, and bare handlers registered
\* with MessageBus.subscribe.
Conns == {"c1", "c2"}
Handlers == {"h1"}
Consumers == Conns \cup Handlers

\* The connection that acts where one connection is looked at.
Single == {"c1"}

\* The generators that for_each makes: one named after each connection, for
\* its iterations one at a time, and one more of the first connection, for an
\* iteration that overlaps another.
Gens == Conns \cup {"g2"}
inbox_of(i) == IF i \in Conns THEN i ELSE "c1"

\* Outboxes made with MessageOutbox() and bound later, as MessageBus.outbox
\* does.
Outboxes == {"o1"}

\* The argument lists given to connect().
WantedLists ==
    { <<"JobCompletedMessage">>,
      <<"JobFailedMessage">>,
      <<"JobCompletedMessage", "JobFailedMessage">> }

VARIABLES
    published,         \* history: every message published, in publish order
    listeners,         \* the bus's listener table, in registration order
    life,              \* per consumer: "new", "live", "abandoned", "collected"
    messages_by_type,  \* per connection: MessageInbox._messages_by_type
    gen,               \* per generator name: the for_each generator, if any
    confirmed,         \* history: per connection, messages yielded and handled
    lastEnd,           \* history: per connection and type, how the last iteration ended
    subscribedAt,      \* history: number of publishes before the consumer subscribed
    received,          \* history: per bare handler, messages it was called with
    raised,            \* history: the last publish ended with a listener's exception
    assertion_failed,  \* history: the isinstance assertion of for_each has failed
    bus_of,            \* per outbox and connection: MessageOutbox._bus
    call               \* history: the last count, first item request or outbox
                       \* publish, and the exception it raised

VARIABLES
    maxCores,          \* BatchSystemSupport.maxCores
    maxMemory,         \* BatchSystemSupport.maxMemory
    maxDisk,           \* BatchSystemSupport.maxDisk
    given,             \* history: the ceilings passed to __init__
    workDir,           \* BatchSystemSupport.config.workDir
    environment,       \* BatchSystemSupport.environment
    os_environ,        \* os.environ, the environment of the leader process
    fs,                \* per path: the directory of the worker's file system there
    outcome            \* history: the last call on the batch system and its result

VARIABLES
    job_state,         \* per job ID: "waiting", "running", "finished", "returned", "killed"
    updates,           \* the IDs of the finished jobs the backend has yet to report
    returned,          \* history: the IDs getUpdatedBatchJob has returned, in order
    killed             \* history: per ID given to killBatchJobs, how many IDs
                       \* getUpdatedBatchJob had returned by then

batchVars == << maxCores, maxMemory, maxDisk, given, workDir, environment,
                os_environ, fs, outcome >>

jobVars == << job_state, updates, returned, killed >>

\* One inbox and one of its types, used by two threads: one publishes, the
\* other iterates with for_each.  Messages are numbered in publish order.
VARIABLES
    lists,             \* per list object: its items
    slot,              \* the list object that is _messages_by_type[T]
    publisher,         \* the publishing thread: its position and locals
    iterator,          \* the iterating thread: its position and locals
    acknowledged,      \* history: the messages yielded and handled
    lock,              \* the thread whose call on the inbox is running
    serialised         \* whether the callers let one call run at a time

threadVars == << lists, slot, publisher, iterator, acknowledged,
                 lock, serialised >>

busVars == << published, listeners, life, messages_by_type, gen, confirmed,
              lastEnd, subscribedAt, received, raised, assertion_failed,
              bus_of, call >>

vars == << busVars, batchVars, jobVars, threadVars >>

\* ------------------------------------------------------------ sequences
Range(s) == { s[k] : k \in DOMAIN s }

\* list.reverse()
Reverse(s) == [ k \in DOMAIN s |-> s[Len(s) + 1 - k] ]

IsPrefix(p, s) == Len(p) <= Len(s) /\ SubSeq(s, 1, Len(p)) = p

IsSuffix(p, s) == Len(p) <= Len(s) /\ SubSeq(s, Len(s) - Len(p) + 1, Len(s)) = p

Count(m, s) == Cardinality({ k \in DOMAIN s : s[k] = m })

OfType(s, T) == SelectSeq(s, LAMBDA m : m.type = T)

StrictlyIncreasing(s) == \A j, k \in DOMAIN s : j < k => s[j].id < s[k].id

NoMsg == [type |-> "-", id |-> 0]

NoCall ==
    [ op |-> "-", on |-> "-", type |-> "-", error |-> "none", value |-> 0,
      arg |-> << >>, inbox |-> << >> ]

\* ------------------------------------------------------------ MessageBus
\* The PyPubSub topic of a message class: its module and its name.
type_to_name(T) == << "toil.bus", T >>

\* The owners of the listeners registered for a topic, in registration order.
ListenersOf(topic) ==
    LET on == SelectSeq(listeners, LAMBDA l : l.topic = topic)
    IN  [ k \in DOMAIN on |-> on[k].owner ]

\* Publisher.sendMessage calls the listeners of the topic in registration
\* order.  MessageBus sets no listener exception handler and neither publish
\* nor handler_wraper catches anything, so the first listener that raises
\* ends the delivery: the result is the listeners that were called.
sendMessage(ls, raisers) ==
    IF \E k \in DOMAIN ls : ls[k] \in raisers
    THEN SubSeq(ls, 1, CHOOSE k \in DOMAIN ls :
                          /\ ls[k] \in raisers
                          /\ \A j \in 1..(k - 1) : ls[j] \notin raisers)
    ELSE ls

\* MessageBus.subscribe: one more listener at the end of the table.
subscribe(ls, T, owner) ==
    Append(ls, [owner |-> owner, topic |-> type_to_name(T)])

\* ---------------------------------------------------------- MessageInbox
\* MessageInbox.__init__.on_message
on_message_all(q, m) == [ t \in DOMAIN q |-> Append(q[t], m) ]

on_message_first(q, m) ==
    LET t == CHOOSE u \in DOMAIN q : TRUE
    IN  [ q EXCEPT ![t] = Append(@, m) ]

on_message(q, m) == [ q EXCEPT ![m.type] = Append(@, m) ]

\* The queue a connection starts with for a type it subscribes to.
NewQueue_replay(T) == OfType(published, T)

NewQueue(T) == << >>

\* MessageInbox._set_bus_and_message_types: the queues after the loop.
RECURSIVE set_message_types(_, _)
set_message_types(q, wanted) ==
    IF wanted = << >> THEN q
    ELSE LET t == Head(wanted)
             q1 == [ u \in DOMAIN q \cup {t} |-> IF u = t THEN NewQueue(t) ELSE q[u] ]
         IN  set_message_types(q1, Tail(wanted))

\* MessageInbox._set_bus_and_message_types: the listeners after the loop.
RECURSIVE set_bus(_, _, _)
set_bus(ls, wanted, owner) ==
    IF wanted = << >> THEN ls
    ELSE set_bus(subscribe(ls, Head(wanted), owner), Tail(wanted), owner)

\* What the listeners called by one publish do to the queues of all inboxes.
Deliver_first(mbt, notified, m) ==
    IF notified = << >> THEN mbt
    ELSE LET o == Head(notified)
         IN  IF o \in Conns
             THEN [ mbt EXCEPT ![o] = on_message(@, m) ]
             ELSE mbt

RECURSIVE Deliver(_, _, _)
Deliver(mbt, notified, m) ==
    IF notified = << >> THEN mbt
    ELSE LET o == Head(notified)
             mbt1 == IF o \in Conns
                     THEN [ mbt EXCEPT ![o] = on_message(@, m) ]
                     ELSE mbt
         IN  Deliver(mbt1, Tail(notified), m)

\* MessageInbox.count
count(c, T) == Len(messages_by_type[c][T])

\* self._messages_by_type[message_type], as a subscript of a dict: a key that
\* was never set raises KeyError.
getitem_default(q, T) ==
    [ error |-> "none", value |-> IF T \in DOMAIN q THEN q[T] ELSE << >> ]

getitem(q, T) ==
    IF T \in DOMAIN q
    THEN [ error |-> "none", value |-> q[T] ]
    ELSE [ error |-> "KeyError", value |-> << >> ]

\* MessageInbox.empty: all(len(v) == 0 for v in _messages_by_type.values())
empty_any(q) == \E T \in DOMAIN q : Len(q[T]) = 0

empty(q) == \A T \in DOMAIN q : Len(q[T]) = 0

\* self._bus is None, the test of MessageOutbox.publish
is_None_never(b) == FALSE

is_None(b) == b = "None"

\* ------------------------------------------------------------- for_each
\* How an iteration ended: the messages of its batch it left unhandled (none
\* when it ran to its end), and the messages of its type that were published
\* between its start and its end.
NoEnd == [ left |-> << >>, during |-> << >> ]

NoGen ==
    [ state        |-> "none",   \* "none", "created" (not started), "suspended" (at yield)
      type         |-> "-",
      message_list |-> << >>,    \* the local message_list
      message      |-> NoMsg,    \* the local message, while suspended at the yield
      atCall       |-> << >>,    \* history: the queue when for_each was called
      atFirst      |-> << >>,    \* history: the queue when the first item was requested
      done         |-> << >>,    \* history: messages of this iteration handled
      startedAt    |-> 0,        \* history: publishes before the first item was requested
      expect       |-> NoEnd ]   \* history: how the iteration before this one ended

\* for_each, line 266: the buffer that replaces the one being iterated.
new_buffer_keep(queue) == queue

new_buffer(queue) == << >>

\* for_each, line 269: message_list after reverse().
for_each_begin_noreverse(queue) == queue

for_each_begin(queue) == Reverse(queue)

\* message_list.pop(): the last item and the list without it.
list_pop_peek(ml) == [ item |-> ml[Len(ml)], rest |-> ml ]

list_pop_front(ml) == [ item |-> Head(ml), rest |-> Tail(ml) ]

list_pop(ml) == [ item |-> ml[Len(ml)], rest |-> SubSeq(ml, 1, Len(ml) - 1) ]

\* for_each, inner finally: the message goes back unless it was handled.
requeue_drop(message_list, message, handled) == message_list

requeue(message_list, message, handled) ==
    IF handled THEN message_list ELSE Append(message_list, message)

\* for_each, outer finally: the rest of the batch goes ahead of the new queue.
merge_back_behind(message_list, queue) == queue \o Reverse(message_list)

merge_back(message_list, queue) == Reverse(message_list) \o queue

\* The messages of the running iteration in the order it yields them.
IterContent(g) ==
    IF g.state = "suspended"
    THEN g.done \o << g.message >> \o Reverse(g.message_list)
    ELSE << >>

\* The messages of type T among publishes from + 1 .. to.
Between(T, from, to) == OfType(SubSeq(published, from + 1, to), T)

\* ---------------------------------------------------- BatchSystemSupport
\* Python's None is the string "None".
\* The largest ceiling a batch system is made with; requests go one above.
MaxCeiling == 2

Ceilings == 1..MaxCeiling
Amounts == 1..(MaxCeiling + 1)

\* The name of the concrete backend class, self.__class__.__name__.
ClassName == "SingleMachineBatchSystem"

WorkDirs == {"None", "/scratch"}

\* The resource descriptors given to check_resource_request.
Requirers ==
    [ cores : Amounts, memory : Amounts, disk : Amounts,
      accelerators : { << >>, << "gpu" >> },
      jobName : {"None", "align"} ]

NoResult ==
    [ kind |-> "-", job_name |-> "None", resource |-> "-", requested |-> 0,
      available |-> 0, batch_system |-> "None", source |-> "None",
      hook |-> FALSE ]

\* The call returned; hook tells whether _check_accelerator_request ran.
Returned(hook) == [ NoResult EXCEPT !.kind = "returned", !.hook = hook ]

\* An exception that is not an InsufficientSystemResources.
Raised(kind, hook) == [ NoResult EXCEPT !.kind = kind, !.hook = hook ]

\* InsufficientSystemResources.__init__
InsufficientSystemResources(requirer, resource, requested, available) ==
    [ NoResult EXCEPT !.kind = "InsufficientSystemResources",
                      !.job_name = requirer.jobName,
                      !.resource = resource,
                      !.requested = requested,
                      !.available = available ]

\* check_resource_request, line 333: requested > available
exceeds_by_two(requested, available) == requested > available + 1

exceeds(requested, available) == requested > available

\* The names bound where the body of _check_accelerator_request runs: its
\* two parameters.  No global of the module has any of the names it uses.
BoundNames == {"self", "requirer"}

\* _check_accelerator_request: the hook reads the name requierer, which is
\* not bound, in its first expression.
check_accelerator_request(requirer) ==
    IF "requierer" \notin BoundNames
    THEN Raised("NameError", TRUE)
    ELSE IF Len(requirer.accelerators) > 0
         THEN [ InsufficientSystemResources(requirer, "accelerators",
                                            requirer.accelerators, << >>)
                    EXCEPT !.hook = TRUE ]
         ELSE Returned(TRUE)

\* check_resource_request, lines 328-334: the loop over cores, memory, disk.
RECURSIVE check_loop(_, _)
check_loop(requirer, checks) ==
    IF checks = << >> THEN Returned(FALSE)
    ELSE LET resource == Head(checks)[1]
             requested == Head(checks)[2]
             available == Head(checks)[3]
         IN  IF exceeds(requested, available)
             THEN InsufficientSystemResources(requirer, resource, requested, available)
             ELSE check_loop(requirer, Tail(checks))

\* check_resource_request, lines 337-341: the except clause.
annotate_nothing(e) == e

annotate(e) ==
    IF e.kind = "InsufficientSystemResources"
    THEN [ e EXCEPT !.batch_system = ClassName,
                    !.source = IF e.resource = "disk" THEN workDir ELSE "None" ]
    ELSE e

\* check_resource_request, lines 329-331: the list the loop goes through.
resource_checks_disk_first(requirer) ==
    << << "disk", requirer.disk, maxDisk >>,
       << "memory", requirer.memory, maxMemory >>,
       << "cores", requirer.cores, maxCores >> >>

resource_checks(requirer) ==
    << << "cores", requirer.cores, maxCores >>,
       << "memory", requirer.memory, maxMemory >>,
       << "disk", requirer.disk, maxDisk >> >>

\* check_resource_request: what the call ends with.
check_resource_request(requirer) ==
    LET looped == check_loop(requirer, resource_checks(requirer))
    IN  annotate(IF looped.kind = "returned"
                 THEN check_accelerator_request(requirer)
                 ELSE looped)

\* check_resource_request assigns to none of the ceilings.
ceiling_after_check_reserve(ceiling, requested, result) ==
    IF result.kind = "InsufficientSystemResources"
    THEN ceiling ELSE ceiling - requested

ceiling_after_check(ceiling, requested, result) == ceiling

\* The variables that setEnv may name, and their values.
Names == {"TMPDIR", "TOIL_WORKDIR"}
Values == {"a", "b"}

\* self.environment[name] = value
dict_setdefault(d, name, value) ==
    [ n \in DOMAIN d \cup {name} |-> IF n \in DOMAIN d THEN d[n] ELSE value ]

dict_set(d, name, value) ==
    [ n \in DOMAIN d \cup {name} |-> IF n = name THEN value ELSE d[n] ]

\* setEnv: the result of the call and the map after it.
setEnv(env, name, value) ==
    IF value = "None" /\ name \notin DOMAIN os_environ
    THEN \* os.environ[name] raises KeyError, turned into RuntimeError
         [ result |-> Raised("RuntimeError", FALSE), environment |-> env ]
    ELSE [ result |-> Returned(FALSE),
           environment |-> dict_set(env, name,
                                    IF value = "None" THEN os_environ[name] ELSE value) ]

\* before is the environment map (for workerCleanup, the file system) as it
\* was when the call was made; value is what the call returned.
NoOutcome ==
    [ op |-> "-", arg |-> << >>, result |-> NoResult, before |-> << >>,
      value |-> << >> ]

\* The partial maps from names to values.
EnvMaps == UNION { [ D -> Values ] : D \in SUBSET Names }

\* ------------------------------------- InsufficientSystemResources.__str__
\* The exceptions that can be made: an amount of 0 stands for None, as does
\* the string "None" for a name.
Exceptions ==
    [ kind : {"InsufficientSystemResources"},
      job_name : {"None", "align"},
      resource : {"cores", "memory", "disk", "accelerators"},
      requested : {0} \cup Amounts,
      available : {0} \cup Ceilings,
      batch_system : {"None", ClassName},
      source : {"None", "/scratch"},
      details : { << >>, << "no nodes" >>, << "no nodes", "retry later" >> },
      hook : {FALSE} ]

\* str.capitalize() of the three resources that have a --max option.
capitalize(resource) ==
    CASE resource = "cores" -> "Cores"
      [] resource = "memory" -> "Memory"
      [] resource = "disk" -> "Disk"

\* ''.join(msg): the pieces in order; an empty piece adds nothing.
join(msg) == SelectSeq(msg, LAMBDA piece : piece # "")

\* __str__, lines 541-569, as the text it builds when every name it reads is
\* bound to what its spelling suggests (self.job_name, self.available,
\* self.resource, self.details, 'disk').  The qualifier is not an f-string.
text(e) ==
    LET unit == IF e.resource \in {"disk", "memory"} THEN "bytes of " ELSE ""
        purpose == IF e.resource = "disk" THEN " for temporary space" ELSE ""
        qualifier == IF e.resource = "disk" /\ e.source # "None"
                     THEN " free on {self.source}" ELSE ""
        who == IF e.job_name # "None"
               THEN << "The job ", e.job_name, " is requesting " >>
               ELSE << "Requesting " >>
        what == IF e.requested # 0
                THEN << ToString(e.requested), " ", unit, e.resource >>
                ELSE << >>
        limit == IF e.available # 0
                 THEN << ", more than the maximum of ", ToString(e.available),
                         " ", unit, e.resource, qualifier, " that ",
                         IF e.batch_system # "None" THEN e.batch_system
                         ELSE "this batch system",
                         " was configured with" >>
                      \o (IF e.resource \in {"cores", "memory", "disk"}
                          THEN << ", or enforced by --max",
                                  capitalize(e.resource) >>
                          ELSE << >>)
                 ELSE << ", but that is not available" >>
        hint == IF e.resource = "disk"
                THEN << " Try setting/changing the toil option \"--workDir\" or changing the base temporary directory by setting TMPDIR." >>
                ELSE << >>
        RECURSIVE lines(_)
        lines(details) ==
            IF details = << >> THEN << >>
            ELSE << " ", Head(details) >> \o lines(Tail(details))
    IN  join(who \o what \o << purpose >> \o limit \o << "." >> \o hint
             \o lines(e.details))

\* The names bound where the body of __str__ runs: its parameter and the
\* locals it assigns.  No global of the module has any of the names it uses.
StrBoundNames == {"self", "unit", "purpose", "qualifier", "msg", "detail"}

\* The names that __str__ reads for e, in the order it reads them: disk at
\* line 543, job_name at 547, available at 555, resource at 557, details at
\* 565.
names_read(e) ==
    << "self", "disk" >>
    \o (IF e.job_name # "None" THEN << "job_name" >> ELSE << >>)
    \o (IF e.available # 0 THEN << "available" >> ELSE << >>)
    \o (IF e.available # 0 /\ e.resource \in {"cores", "memory", "disk"}
        THEN << "resource" >> ELSE << >>)
    \o << "details" >>

\* InsufficientSystemResources.__str__: the text, or the NameError of the
\* first name read that is not bound.
InsufficientSystemResources_str(e) ==
    IF \E i \in DOMAIN names_read(e) : names_read(e)[i] \notin StrBoundNames
    THEN [ result |-> Raised("NameError", FALSE), value |-> << >> ]
    ELSE [ result |-> Returned(FALSE), value |-> text(e) ]

\* ------------------------------------------------------- workerCleanup
\* The path of the workflow's local directory, and the paths that the
\* workflow's coordination directory can have: the same one or another.
workflowDir == "/work/wf"
Paths == { workflowDir, "/run/wf" }

\* cacheDirName(info.workflow_id), and the name of anything else that can be
\* in a directory.
cacheDirName == "cache"
Entries == { cacheDirName, "job" }

\* The directories of a worker: whether each exists and what is in it.
GoneDir == [ exists |-> FALSE, entries |-> {} ]
Dirs == [ exists : {TRUE}, entries : SUBSET Entries ]
NoFiles == [ p \in Paths |-> [ exists |-> TRUE, entries |-> {} ] ]

\* WorkerCleanupInfo: the coordination directory as resolved by
\* Toil.get_local_workflow_coordination_dir, and the policy.
WorkerCleanupInfos ==
    [ coordination_dir : Paths,
      clean_work_dir : {"always", "onSuccess", "onError", "never"} ]

\* shutil.rmtree(path, ignore_errors=True)
rmtree(files, path) == [ files EXCEPT ![path] = GoneDir ]

\* workerCleanup, line 420: workflowDirContents in ([], [cacheDirName(...)])
only_cache_or_anything(contents) == TRUE

only_cache(contents) == contents \in { {}, {cacheDirName} }

\* workerCleanup: the file system after the call.  shut is the file system
\* after AbstractFileStore.shutdownFileStore, which the call makes after it
\* has listed the workflow directory.
workerCleanup(files, shut, info) ==
    LET workflowDirContents == files[workflowDir].entries
        coordination_dir == info.coordination_dir
    IN  IF info.clean_work_dir \in {"always", "onSuccess", "onError"}
        THEN LET first == IF only_cache(workflowDirContents)
                          THEN rmtree(shut, workflowDir) ELSE shut
             IN  IF coordination_dir # workflowDir
                 THEN rmtree(first, coordination_dir) ELSE first
        ELSE shut

\* No batch system is looked at: its state stays as made.
BatchIdle ==
    /\ maxCores = MaxCeiling
    /\ maxMemory = MaxCeiling
    /\ maxDisk = MaxCeiling
    /\ given = << maxCores, maxMemory, maxDisk >>
    /\ workDir = "None"
    /\ environment = << >>
    /\ os_environ = << >>
    /\ fs = NoFiles
    /\ outcome = NoOutcome

\* A batch system whose ceilings are not looked at, in a leader process with
\* any environment.
NewBatchSystemInEnv ==
    /\ maxCores = MaxCeiling
    /\ maxMemory = MaxCeiling
    /\ maxDisk = MaxCeiling
    /\ given = << maxCores, maxMemory, maxDisk >>
    /\ workDir = "None"
    /\ environment = << >>
    /\ os_environ \in EnvMaps
    /\ fs = NoFiles
    /\ outcome = NoOutcome

\* BatchSystemSupport.__init__(config, maxCores, maxMemory, maxDisk)
NewBatchSystem ==
    /\ maxCores \in Ceilings
    /\ maxMemory \in Ceilings
    /\ maxDisk \in Ceilings
    /\ given = << maxCores, maxMemory, maxDisk >>
    /\ workDir \in WorkDirs
    /\ environment = << >>
    /\ os_environ = << >>
    /\ fs = NoFiles
    /\ outcome = NoOutcome

\* ------------------------------------------------- AbstractBatchSystem
\* AbstractBatchSystem declares the operations on jobs and leaves them to
\* the backends: what follows is a backend as section 4.3 of the
\* specification and the docstrings of the declarations describe it.  Job
\* IDs are 1, 2, ... in the order of issue.
\* The number of jobs issued in a run.
MaxJobs == 3

\* getRunningBatchJobIDs: the jobs that are executing.
getRunningBatchJobIDs ==
    { j \in DOMAIN job_state : job_state[j] = "running" }

\* getIssuedBatchJobIDs: the jobs that are waiting or running.
getIssuedBatchJobIDs ==
    { j \in DOMAIN job_state : job_state[j] \in {"waiting", "running"} }

\* killBatchJobs: what the backend still has to report after the kill.
updates_after_kill_keep(pending, ids) == pending

updates_after_kill(pending, ids) == SelectSeq(pending, LAMBDA j : j \notin ids)

\* getUpdatedBatchJob: what the backend still has to report after the call
\* has returned the first of the pending updates.
updates_after_get_keep(pending) == pending

updates_after_get(pending) == Tail(pending)

\* No job is issued.
JobsIdle ==
    /\ job_state = << >>
    /\ updates = << >>
    /\ returned = << >>
    /\ killed = << >>

\* --------------------------------------------------------------- threads
\* The messages published where two threads act.
MaxSent == 3

\* The list objects: at most four are referred to at a time (the queue, the
\* list the publisher looked up, message_list, the sum at line 295).
ListIds == {"L1", "L2", "L3", "L4"}

IdlePublisher == [ pc |-> "idle", ref |-> "None", m |-> 0, sent |-> 0 ]
IdleIterator ==
    [ pc |-> "idle", message_list |-> "None", sum |-> "None", message |-> 0 ]

\* No thread has touched the inbox; its queue for T is an empty list.
ThreadsIdle ==
    /\ lists = [ l \in ListIds |-> << >> ]
    /\ slot = "L1"
    /\ publisher = IdlePublisher
    /\ iterator = IdleIterator
    /\ acknowledged = {}
    /\ lock = "free"
    /\ serialised = TRUE

\* The callers are of either kind.
NewThreads ==
    /\ lists = [ l \in ListIds |-> << >> ]
    /\ slot = "L1"
    /\ publisher = IdlePublisher
    /\ iterator = IdleIterator
    /\ acknowledged = {}
    /\ lock = "free"
    /\ serialised \in BOOLEAN

\* A list object that nothing refers to is gone.
Live(h, s, p, it) ==
    [ l \in ListIds |->
        IF l \in { s, p.ref, it.message_list, it.sum } THEN h[l] ELSE << >> ]

\* A new list object.
Fresh == CHOOSE l \in ListIds :
             l \notin { slot, publisher.ref, iterator.message_list, iterator.sum }

\* One statement of thread t runs and leaves the lists, the queue and the
\* threads as given; the call of t is over afterwards or not.
Statement(t, h, s, p, it, over) ==
    /\ serialised => lock \in {"free", t}
    /\ lock' = IF serialised /\ ~over THEN t ELSE "free"
    /\ lists' = Live(h, s, p, it)
    /\ slot' = s
    /\ publisher' = p
    /\ iterator' = it
    /\ UNCHANGED serialised
    /\ UNCHANGED << busVars, batchVars, jobVars >>

\* on_message, line 217: self._messages_by_type[type(message)] is looked up
\* for the next message.
Lookup ==
    /\ publisher.pc = "idle"
    /\ publisher.sent < MaxSent
    /\ Statement("publisher", lists, slot,
                 [ pc |-> "looked", ref |-> slot, m |-> publisher.sent + 1,
                   sent |-> publisher.sent + 1 ],
                 iterator, FALSE)
    /\ UNCHANGED acknowledged

\* on_message, line 217: .append(message) on the list that was looked up.
AppendMessage ==
    /\ publisher.pc = "looked"
    /\ Statement("publisher",
                 [ lists EXCEPT ![publisher.ref] = Append(@, publisher.m) ],
                 slot,
                 [ publisher EXCEPT !.pc = "idle", !.ref = "None", !.m = 0 ],
                 iterator, TRUE)
    /\ UNCHANGED acknowledged

\* for_each, line 263: message_list = self._messages_by_type[message_type],
\* at the first request for an item.
Grab ==
    /\ iterator.pc = "idle"
    /\ Statement("iterator", lists, slot, publisher,
                 [ iterator EXCEPT !.pc = "grabbed", !.message_list = slot ],
                 FALSE)
    /\ UNCHANGED acknowledged

\* for_each, line 266: self._messages_by_type[message_type] = []
Swap ==
    /\ iterator.pc = "grabbed"
    /\ Statement("iterator",
                 [ lists EXCEPT ![Fresh] = new_buffer(lists[slot]) ],
                 Fresh, publisher,
                 [ iterator EXCEPT !.pc = "swapped" ], FALSE)
    /\ UNCHANGED acknowledged

\* for_each, line 269: message_list.reverse()
ReverseList ==
    /\ iterator.pc = "swapped"
    /\ Statement("iterator",
                 [ lists EXCEPT ![iterator.message_list] = for_each_begin(@) ],
                 slot, publisher, [ iterator EXCEPT !.pc = "loop" ], FALSE)
    /\ UNCHANGED acknowledged

\* for_each, lines 270-282: the test of the while loop, and when there are
\* items, message = message_list.pop() and the yield, where the call is over.
Pop ==
    /\ iterator.pc = "loop"
    /\ LET ml == lists[iterator.message_list]
       IN  IF Len(ml) > 0
           THEN Statement("iterator",
                          [ lists EXCEPT ![iterator.message_list] = list_pop(ml).rest ],
                          slot, publisher,
                          [ iterator EXCEPT !.pc = "yielded",
                                            !.message = list_pop(ml).item ],
                          TRUE)
           ELSE Statement("iterator", lists, slot, publisher,
                          [ iterator EXCEPT !.pc = "finally" ], FALSE)
    /\ UNCHANGED acknowledged

\* The consumer asks for the next item: line 284, handled = True; the inner
\* finally adds nothing.
Resume ==
    /\ iterator.pc = "yielded"
    /\ Statement("iterator",
                 [ lists EXCEPT ![iterator.message_list] =
                       requeue(@, iterator.message, TRUE) ],
                 slot, publisher,
                 [ iterator EXCEPT !.pc = "loop", !.message = 0 ], FALSE)
    /\ acknowledged' = acknowledged \cup { iterator.message }

\* The consumer ends the iteration at the yield, the item not handled: the
\* inner finally, line 290, message_list.append(message).
PutBack ==
    /\ iterator.pc = "yielded"
    /\ Statement("iterator",
                 [ lists EXCEPT ![iterator.message_list] =
                       requeue(@, iterator.message, FALSE) ],
                 slot, publisher,
                 [ iterator EXCEPT !.pc = "finally", !.message = 0 ], FALSE)
    /\ UNCHANGED acknowledged

\* for_each, line 294: message_list.reverse()
ReverseBack ==
    /\ iterator.pc = "finally"
    /\ Statement("iterator",
                 [ lists EXCEPT ![iterator.message_list] = Reverse(@) ],
                 slot, publisher, [ iterator EXCEPT !.pc = "reversed" ], FALSE)
    /\ UNCHANGED acknowledged

\* for_each, line 295, right-hand side: a new list, message_list followed by
\* the queue.
Sum ==
    /\ iterator.pc = "reversed"
    /\ Statement("iterator",
                 [ lists EXCEPT ![Fresh] =
                       lists[iterator.message_list] \o lists[slot] ],
                 slot, publisher,
                 [ iterator EXCEPT !.pc = "summed", !.sum = Fresh ], FALSE)
    /\ UNCHANGED acknowledged

\* for_each, line 295, the assignment: the new list is the queue; the
\* generator is finished.
Store ==
    /\ iterator.pc = "summed"
    /\ Statement("iterator", lists, iterator.sum, publisher, IdleIterator, TRUE)
    /\ UNCHANGED acknowledged

\* A publishing thread and an iterating thread on one inbox.
NextThreads ==
    \/ Lookup
    \/ AppendMessage
    \/ Grab
    \/ Swap
    \/ ReverseList
    \/ Pop
    \/ Resume
    \/ PutBack
    \/ ReverseBack
    \/ Sum
    \/ Store

\* ---------------------------------------------------------------- Init
\* A new MessageBus; connections, handlers and outboxes not yet made or bound.
BusInit ==
    /\ published = << >>
    /\ listeners = << >>
    /\ life = [ c \in Consumers |-> "new" ]
    /\ messages_by_type = [ c \in Conns |-> << >> ]
    /\ gen = [ i \in Gens |-> NoGen ]
    /\ confirmed = [ c \in Conns |-> << >> ]
    /\ lastEnd = [ c \in Conns |-> [ T \in MessageTypes |-> NoEnd ] ]
    /\ subscribedAt = [ c \in Consumers |-> 0 ]
    /\ received = [ h \in Handlers |-> << >> ]
    /\ raised = FALSE
    /\ assertion_failed = FALSE
    /\ bus_of = [ o \in Outboxes \cup Conns |-> "None" ]
    /\ call = NoCall

Init == BusInit /\ BatchIdle /\ JobsIdle /\ ThreadsIdle

InitThreads == BusInit /\ BatchIdle /\ JobsIdle /\ NewThreads

SpecThreads == InitThreads /\ [][NextThreads]_vars

\* -------------------------------------------------------------- actions
\* c = bus.connect(wanted)
Connect(c, wanted) ==
    /\ life[c] = "new"
    /\ life' = [ life EXCEPT ![c] = "live" ]
    /\ messages_by_type' =
           [ messages_by_type EXCEPT ![c] = set_message_types(@, wanted) ]
    /\ listeners' = set_bus(listeners, wanted, c)
    /\ subscribedAt' = [ subscribedAt EXCEPT ![c] = Len(published) ]
    /\ bus_of' = [ bus_of EXCEPT ![c] = "bus" ]        \* line 349: _set_bus
    /\ call' = NoCall
    /\ UNCHANGED << batchVars, jobVars, threadVars >>
    /\ UNCHANGED << published, gen, confirmed, lastEnd, received, raised,
                    assertion_failed >>

\* handle = bus.subscribe(T, h)
Subscribe(h, T) ==
    /\ life[h] = "new"
    /\ life' = [ life EXCEPT ![h] = "live" ]
    /\ listeners' = subscribe(listeners, T, h)
    /\ subscribedAt' = [ subscribedAt EXCEPT ![h] = Len(published) ]
    /\ call' = NoCall
    /\ UNCHANGED << bus_of, batchVars, jobVars, threadVars >>
    /\ UNCHANGED << published, messages_by_type, gen, confirmed, lastEnd,
                    received, raised, assertion_failed >>

\* MessageBus.publish(m) with m of class T; the handlers in raisers raise
\* when called.
publish(T, raisers) ==
    /\ Len(published) < MaxPublish
    /\ LET m == [ type |-> T, id |-> Len(published) + 1 ]
           ls == ListenersOf(type_to_name(T))
           notified == sendMessage(ls, raisers)
       IN  /\ published' = Append(published, m)
           /\ messages_by_type' = Deliver(messages_by_type, notified, m)
           /\ received' = [ h \in Handlers |->
                              IF h \in Range(notified)
                              THEN Append(received[h], m) ELSE received[h] ]
           /\ raised' = (Range(ls) \cap raisers # {})
    /\ UNCHANGED << listeners, life, gen, confirmed, lastEnd, subscribedAt,
                    assertion_failed >>

\* bus.publish(m), called on the bus itself.
Publish(T, raisers) ==
    /\ publish(T, raisers)
    /\ call' = NoCall
    /\ UNCHANGED << bus_of, batchVars, jobVars, threadVars >>

\* o = MessageOutbox(); o._set_bus(bus): what MessageBus.outbox does.
Outbox(o) ==
    /\ bus_of[o] = "None"
    /\ bus_of' = [ bus_of EXCEPT ![o] = "bus" ]
    /\ call' = NoCall
    /\ UNCHANGED << batchVars, jobVars, threadVars >>
    /\ UNCHANGED << published, listeners, life, messages_by_type, gen, confirmed,
                    lastEnd, subscribedAt, received, raised, assertion_failed >>

\* o.publish(m) with m of class T, on an outbox or on a connection.
OutboxPublish(o, T) ==
    /\ o \in Conns => life[o] \in {"new", "live"}
    /\ IF is_None(bus_of[o])
       THEN \* raise RuntimeError("Cannot send message when not connected to a bus")
            /\ call' = [ op |-> "publish", on |-> o, type |-> T,
                         error |-> "RuntimeError", value |-> 0,
                         arg |-> << >>, inbox |-> << >> ]
            /\ UNCHANGED << published, listeners, life, messages_by_type, gen,
                            confirmed, lastEnd, subscribedAt, received, raised,
                            assertion_failed >>
       ELSE \* self._bus.publish(message)
            /\ publish(T, {})
            /\ call' = [ op |-> "publish", on |-> o, type |-> T,
                         error |-> "none", value |-> 0,
                         arg |-> << >>, inbox |-> << >> ]
    /\ UNCHANGED << bus_of, batchVars, jobVars, threadVars >>

\* c.count(T)
CountCall(c, T) ==
    /\ life[c] \in {"new", "live"}
    /\ LET queue == getitem(messages_by_type[c], T)
       IN  call' = [ op |-> "count", on |-> c, type |-> T,
                     error |-> queue.error, value |-> Len(queue.value),
                     arg |-> << >>, inbox |-> << >> ]
    /\ UNCHANGED << bus_of, batchVars, jobVars, threadVars >>
    /\ UNCHANGED << published, listeners, life, messages_by_type, gen, confirmed,
                    lastEnd, subscribedAt, received, raised, assertion_failed >>

\* c.empty(); the result is the value of the call.
EmptyCall(c) ==
    /\ life[c] \in {"new", "live"}
    /\ call' = [ op |-> "empty", on |-> c, type |-> "-", error |-> "none",
                 value |-> empty(messages_by_type[c]),
                 arg |-> << >>, inbox |-> << >> ]
    /\ UNCHANGED << bus_of, batchVars, jobVars, threadVars >>
    /\ UNCHANGED << published, listeners, life, messages_by_type, gen, confirmed,
                    lastEnd, subscribedAt, received, raised, assertion_failed >>

\* g = c.for_each(T): a generator is made; none of its body has run.
ForEachCall(i, T) ==
    /\ life[inbox_of(i)] = "live"
    /\ gen[i].state = "none"
    /\ gen' = [ gen EXCEPT ![i] =
                  [ NoGen EXCEPT !.state = "created", !.type = T,
                                 !.atCall = IF T \in DOMAIN messages_by_type[inbox_of(i)]
                                            THEN messages_by_type[inbox_of(i)][T]
                                            ELSE << >> ] ]
    /\ call' = NoCall
    /\ UNCHANGED << bus_of, batchVars, jobVars, threadVars >>
    /\ UNCHANGED << published, listeners, life, messages_by_type, confirmed,
                    lastEnd, subscribedAt, received, raised, assertion_failed >>

\* The iteration of generator g0 of connection c ends with local list ml and
\* queue q: the outer finally block of for_each.
Finish(i, g0, ml, q) ==
    /\ gen' = [ gen EXCEPT ![i] = NoGen ]
    /\ messages_by_type' =
           [ messages_by_type EXCEPT ![inbox_of(i)][g0.type] = merge_back(ml, q) ]
    /\ lastEnd' = [ lastEnd EXCEPT ![inbox_of(i)][g0.type] =
                      [ left |-> SubSeq(g0.atFirst, Len(g0.done) + 1, Len(g0.atFirst)),
                        during |-> Between(g0.type, g0.startedAt, Len(published)) ] ]

\* The body of for_each from the top of the while loop, with local list ml,
\* the connection's queue for the type being q and the history fields in g0.
LoopTop(i, g0, ml, q) ==
    IF Len(ml) > 0
    THEN LET message == list_pop(ml).item        \* message = message_list.pop()
             rest == list_pop(ml).rest
         IN  IF message.type = g0.type               \* the isinstance assertion
             THEN \* yield message
                  /\ gen' = [ gen EXCEPT ![i] =
                                [ g0 EXCEPT !.state = "suspended",
                                            !.message = message,
                                            !.message_list = rest ] ]
                  /\ messages_by_type' =
                         [ messages_by_type EXCEPT ![inbox_of(i)][g0.type] = q ]
                  /\ UNCHANGED << lastEnd, assertion_failed >>
             ELSE \* the assertion fails: both finally blocks run
                  /\ Finish(i, g0, requeue(rest, message, FALSE), q)
                  /\ assertion_failed' = TRUE
    ELSE \* the loop ends; outer finally; StopIteration
         /\ Finish(i, g0, ml, q)
         /\ UNCHANGED assertion_failed

\* next(g): the consumer asks for an item, for the first time or after
\* handling the previous one without error.
NextItem(i) ==
    /\ gen[i].state \in {"created", "suspended"}
    /\ LET g == gen[i]
           T == g.type
           queue == getitem(messages_by_type[inbox_of(i)], T)
       IN  IF g.state = "created"
           THEN \* the first request runs for_each up to its first yield
                /\ call' = [ op |-> "for_each", on |-> inbox_of(i), type |-> T,
                             error |-> queue.error, value |-> 0,
                             arg |-> << >>, inbox |-> << >> ]
                /\ IF queue.error # "none"
                   THEN \* line 263 raises before anything is assigned and
                        \* before the try blocks are entered
                        /\ gen' = [ gen EXCEPT ![i] = NoGen ]
                        /\ UNCHANGED << messages_by_type, lastEnd, assertion_failed >>
                   ELSE \* lines 263-269: swap the queue out and reverse it
                        LoopTop(i,
                                [ g EXCEPT !.atFirst = queue.value,
                                           !.startedAt = Len(published),
                                           !.expect = lastEnd[inbox_of(i)][T] ],
                                for_each_begin(queue.value),
                                new_buffer(queue.value))
                /\ UNCHANGED confirmed
           ELSE \* resumed after the yield: handled = True
                /\ LoopTop(i,
                           [ g EXCEPT !.done = Append(@, g.message),
                                      !.message = NoMsg ],
                           requeue(g.message_list, g.message, TRUE),
                           messages_by_type[inbox_of(i)][T])
                /\ confirmed' = [ confirmed EXCEPT ![inbox_of(i)] = Append(@, g.message) ]
                /\ call' = NoCall
    /\ UNCHANGED << bus_of, batchVars, jobVars, threadVars >>
    /\ UNCHANGED << published, listeners, life, subscribedAt, received, raised >>

\* The iteration ends at the yield without the item having been handled: the
\* handler raised (the exception unwinds the consumer's loop and the
\* generator is closed) or the consumer stopped iterating.  The exception is
\* raised at the yield and both finally blocks run.
Close(i) ==
    /\ gen[i].state = "suspended"
    /\ LET g == gen[i]
       IN  Finish(i, g, requeue(g.message_list, g.message, FALSE),
                  messages_by_type[inbox_of(i)][g.type])
    /\ call' = NoCall
    /\ UNCHANGED << bus_of, batchVars, jobVars, threadVars >>
    /\ UNCHANGED << published, listeners, life, confirmed, subscribedAt,
                    received, raised, assertion_failed >>

\* A generator that was never started is dropped: no line of for_each runs.
Discard(i) ==
    /\ gen[i].state = "created"
    /\ gen' = [ gen EXCEPT ![i] = NoGen ]
    /\ call' = NoCall
    /\ UNCHANGED << bus_of, batchVars, jobVars, threadVars >>
    /\ UNCHANGED << published, listeners, life, messages_by_type, confirmed,
                    lastEnd, subscribedAt, received, raised, assertion_failed >>

\* The owner lets go of its connection or of its subscription handle.  The
\* code has no operation that unregisters a listener: the listener stays in
\* the bus's table until the garbage collector gets to it.
Abandon(c) ==
    /\ life[c] = "live"
    /\ c \in Conns => gen[c].state = "none"
    /\ life' = [ life EXCEPT ![c] = "abandoned" ]
    /\ call' = NoCall
    /\ UNCHANGED << bus_of, batchVars, jobVars, threadVars >>
    /\ UNCHANGED << published, listeners, messages_by_type, gen, confirmed,
                    lastEnd, subscribedAt, received, raised, assertion_failed >>

\* The garbage collector frees an abandoned consumer: its listeners expire
\* and its queues are gone (the history kept about it is dropped with it).
Collect(c) ==
    /\ life[c] = "abandoned"
    /\ life' = [ life EXCEPT ![c] = "collected" ]
    /\ listeners' = SelectSeq(listeners, LAMBDA l : l.owner # c)
    /\ messages_by_type' =
           [ d \in Conns |-> IF d = c THEN << >> ELSE messages_by_type[d] ]
    /\ confirmed' = [ d \in Conns |-> IF d = c THEN << >> ELSE confirmed[d] ]
    /\ lastEnd' = [ d \in Conns |->
                      IF d = c THEN [ T \in MessageTypes |-> NoEnd ] ELSE lastEnd[d] ]
    /\ received' = [ h \in Handlers |-> IF h = c THEN << >> ELSE received[h] ]
    /\ subscribedAt' = [ subscribedAt EXCEPT ![c] = 0 ]
    /\ call' = NoCall
    /\ UNCHANGED << bus_of, batchVars, jobVars, threadVars >>
    /\ UNCHANGED << published, gen, raised, assertion_failed >>

ConnStep(c) ==
    \/ \E w \in WantedLists : Connect(c, w)
    \/ \E T \in DOMAIN messages_by_type[c] : ForEachCall(c, T)
    \/ NextItem(c)
    \/ Close(c)
    \/ Discard(c)
    \/ Abandon(c)
    \/ Collect(c)

HandlerStep(h) ==
    \/ \E T \in MessageTypes : Subscribe(h, T)
    \/ Abandon(h)
    \/ Collect(h)

\* One connection on the bus; every listener returns normally.
Next ==
    \/ \E c \in Single : ConnStep(c)
    \/ \E T \in MessageTypes : Publish(T, {})

Spec == Init /\ [][Next]_vars

\* The consumer of a sequence that for_each returned keeps asking for the
\* next item unless it ends the iteration.
SpecIterate == Spec /\ WF_vars(\E c \in Single : NextItem(c))

\* Argument lists given to connect() that name a type more than once.
RepeatedLists ==
    { << T, T >> : T \in MessageTypes }
        \cup { << T, U, T >> : T, U \in MessageTypes }

\* One connection made with a list that names a type more than once; every
\* listener returns normally.
NextRepeated ==
    \/ \E c \in Single, w \in RepeatedLists : Connect(c, w)
    \/ \E c \in Single : \E T \in DOMAIN messages_by_type[c] : ForEachCall(c, T)
    \/ \E c \in Single : NextItem(c)
    \/ \E c \in Single : Close(c)
    \/ \E T \in MessageTypes : Publish(T, {})

SpecRepeated == Init /\ [][NextRepeated]_vars

\* One connection whose consumer holds up to two sequences of for_each at a
\* time, each of them on any of its types; every listener returns normally.
NextOverlap ==
    \/ \E c \in Single, w \in WantedLists : Connect(c, w)
    \/ \E i \in Gens : \E T \in DOMAIN messages_by_type[inbox_of(i)] :
           inbox_of(i) \in Single /\ ForEachCall(i, T)
    \/ \E i \in Gens : NextItem(i)
    \/ \E i \in Gens : Close(i)
    \/ \E T \in MessageTypes : Publish(T, {})

SpecOverlap == Init /\ [][NextOverlap]_vars

\* The publishes looked at where two connections act.
MaxPublishTwo == 2

\* Two connections on the bus, each iterating its own queues, one iteration
\* at a time; every listener returns normally.
NextTwo ==
    \/ \E c \in Conns, w \in WantedLists : Connect(c, w)
    \/ \E c \in Conns : \E T \in DOMAIN messages_by_type[c] :
           /\ \A d \in Conns \ {c} : gen[d].state = "none"
           /\ ForEachCall(c, T)
    \/ \E c \in Conns : NextItem(c)
    \/ \E c \in Conns : Close(c)
    \/ \E T \in MessageTypes :
           Len(published) < MaxPublishTwo /\ Publish(T, {})

SpecTwo == Init /\ [][NextTwo]_vars

\* One connection on the bus, asked whether it is empty at any moment; every
\* listener returns normally.
NextEmpty ==
    \/ \E c \in Single : ConnStep(c)
    \/ \E T \in MessageTypes : Publish(T, {})
    \/ \E c \in Single : EmptyCall(c)

SpecEmpty == Init /\ [][NextEmpty]_vars

\* A connection and a bare handler on the bus; the handler may raise when it
\* is called.
NextRaise ==
    \/ \E c \in Single : ConnStep(c)
    \/ \E h \in Handlers : HandlerStep(h)
    \/ \E T \in MessageTypes, R \in SUBSET Handlers : Publish(T, R)

SpecRaise == Init /\ [][NextRaise]_vars

\* A connection and an outbox on the bus; every listener returns normally;
\* count and for_each are called for types the connection did not subscribe
\* to as well, and messages are published through the outbox and the
\* connection as well as on the bus.
NextCalls ==
    \/ \E c \in Single : ConnStep(c)
    \/ \E c \in Single, T \in MessageTypes : ForEachCall(c, T)
    \/ \E T \in MessageTypes : Publish(T, {})
    \/ \E c \in Single, T \in MessageTypes : CountCall(c, T)
    \/ \E o \in Outboxes : Outbox(o)
    \/ \E o \in Outboxes \cup Single, T \in MessageTypes : OutboxPublish(o, T)

SpecCalls == Init /\ [][NextCalls]_vars

\* ------------------------------------------------------------ job actions
\* jobID = batch_system.issueBatchJob(jobDesc)
IssueBatchJob ==
    /\ Len(job_state) < MaxJobs
    /\ job_state' = Append(job_state, "waiting")
    /\ UNCHANGED << updates, returned, killed >>
    /\ UNCHANGED << busVars, batchVars, threadVars >>

\* The backend starts a job that is waiting.
JobStarts(j) ==
    /\ job_state[j] = "waiting"
    /\ job_state' = [ job_state EXCEPT ![j] = "running" ]
    /\ UNCHANGED << updates, returned, killed >>
    /\ UNCHANGED << busVars, batchVars, threadVars >>

\* A running job ceases running, successfully or with an error.
JobEnds(j) ==
    /\ job_state[j] = "running"
    /\ job_state' = [ job_state EXCEPT ![j] = "finished" ]
    /\ updates' = Append(updates, j)
    /\ UNCHANGED << returned, killed >>
    /\ UNCHANGED << busVars, batchVars, threadVars >>

\* batch_system.killBatchJobs(ids): the jobs that have not been reported are
\* gone from the backend, whether waiting, running or finished.
KillBatchJobs(ids) ==
    /\ ids # {}
    /\ job_state' = [ j \in DOMAIN job_state |->
                        IF j \in ids /\ job_state[j] # "returned"
                        THEN "killed" ELSE job_state[j] ]
    /\ updates' = updates_after_kill(updates, ids)
    /\ killed' = [ j \in DOMAIN killed \cup ids |->
                     IF j \in DOMAIN killed THEN killed[j] ELSE Len(returned) ]
    /\ UNCHANGED returned
    /\ UNCHANGED << busVars, batchVars, threadVars >>

\* batch_system.getUpdatedBatchJob(maxWait) returns a finished job.  (With
\* nothing to report it returns None after maxWait and changes nothing.)
GetUpdatedBatchJob ==
    /\ updates # << >>
    /\ returned' = Append(returned, Head(updates))
    /\ job_state' = [ job_state EXCEPT ![Head(updates)] = "returned" ]
    /\ updates' = updates_after_get(updates)
    /\ UNCHANGED killed
    /\ UNCHANGED << busVars, batchVars, threadVars >>

\* One backend: the leader issues jobs, kills jobs and polls for updates
\* while the jobs run.
NextJobs ==
    \/ IssueBatchJob
    \/ \E j \in DOMAIN job_state : JobStarts(j)
    \/ \E j \in DOMAIN job_state : JobEnds(j)
    \/ \E ids \in SUBSET DOMAIN job_state : KillBatchJobs(ids)
    \/ GetUpdatedBatchJob

SpecJobs == Init /\ [][NextJobs]_vars

\* The leader keeps polling: a call of getUpdatedBatchJob that can return a
\* job is made.
SpecJobsFair == SpecJobs /\ WF_vars(GetUpdatedBatchJob)

\* ------------------------------------------------- batch system actions
\* batch_system.check_resource_request(requirer)
CheckResourceRequest(requirer) ==
    /\ LET result == check_resource_request(requirer)
       IN  /\ outcome' = [ op |-> "check_resource_request", arg |-> requirer,
                           result |-> result, before |-> << >>,
                           value |-> << >> ]
           /\ maxCores' = ceiling_after_check(maxCores, requirer.cores, result)
           /\ maxMemory' = ceiling_after_check(maxMemory, requirer.memory, result)
           /\ maxDisk' = ceiling_after_check(maxDisk, requirer.disk, result)
    /\ UNCHANGED << given, workDir, environment, os_environ, fs >>
    /\ UNCHANGED << busVars, jobVars, threadVars >>

\* One batch system, made with any ceilings and working directory, is asked
\* to admit any descriptors.
NextBatch == \E requirer \in Requirers : CheckResourceRequest(requirer)

InitBatch == BusInit /\ NewBatchSystem /\ JobsIdle /\ ThreadsIdle

SpecBatch == InitBatch /\ [][NextBatch]_vars

\* batch_system.setEnv(name, value); value "None" is the call without a value
SetEnv(name, value) ==
    /\ LET done == setEnv(environment, name, value)
       IN  /\ environment' = done.environment
           /\ outcome' = [ op |-> "setEnv",
                           arg |-> [ name |-> name, value |-> value ],
                           result |-> done.result, before |-> environment,
                           value |-> << >> ]
    /\ UNCHANGED << maxCores, maxMemory, maxDisk, given, workDir, os_environ, fs >>
    /\ UNCHANGED << busVars, jobVars, threadVars >>

\* The leader process sets a variable of its own environment.
Putenv(name, value) ==
    /\ os_environ' = dict_set(os_environ, name, value)
    /\ outcome' = NoOutcome
    /\ UNCHANGED << maxCores, maxMemory, maxDisk, given, workDir, environment, fs >>
    /\ UNCHANGED << busVars, jobVars, threadVars >>

\* The leader process removes a variable from its own environment.
Unsetenv(name) ==
    /\ name \in DOMAIN os_environ
    /\ os_environ' = [ n \in DOMAIN os_environ \ {name} |-> os_environ[n] ]
    /\ outcome' = NoOutcome
    /\ UNCHANGED << maxCores, maxMemory, maxDisk, given, workDir, environment, fs >>
    /\ UNCHANGED << busVars, jobVars, threadVars >>

\* ------------------------------------------------- decode_bus_messages
\* A log stream: the types of the complete records in it, in order, and
\* whether a partial record trails them.  Record k holds the message k.
MaxStream == 4

Streams ==
    [ records : UNION { [ 1..n -> MessageTypes ] : n \in 0..MaxStream },
      partial : BOOLEAN ]

\* MessageBus.decode_bus_messages: its first statement raises, the
\* MessageInbox() of its second statement is never made.
decode_bus_messages(stream, message_types) ==
    [ error |-> "NotImplementedError", inbox |-> << >> ]

\* MessageBus.decode_bus_messages(stream, message_types), a class method: no
\* bus takes part.
DecodeBusMessages(stream, message_types) ==
    /\ LET decoded == decode_bus_messages(stream, message_types)
       IN  call' = [ op |-> "decode_bus_messages", on |-> "-", type |-> "-",
                     error |-> decoded.error, value |-> 0,
                     arg |-> << stream, message_types >>,
                     inbox |-> decoded.inbox ]
    /\ UNCHANGED << published, listeners, life, messages_by_type, gen,
                    confirmed, lastEnd, subscribedAt, received, raised,
                    assertion_failed >>
    /\ UNCHANGED << bus_of, batchVars, jobVars, threadVars >>

\* Streams of every shape are decoded.
NextDecode ==
    \E stream \in Streams, message_types \in WantedLists :
        DecodeBusMessages(stream, message_types)

SpecDecode == Init /\ [][NextDecode]_vars

\* str(e) of an admission-failure exception e.
Str(e) ==
    /\ LET done == InsufficientSystemResources_str(e)
       IN  outcome' = [ op |-> "__str__", arg |-> e, result |-> done.result,
                        before |-> << >>, value |-> done.value ]
    /\ UNCHANGED << maxCores, maxMemory, maxDisk, given, workDir, environment,
                    os_environ, fs >>
    /\ UNCHANGED << busVars, jobVars, threadVars >>

\* Exceptions of every shape are rendered.
NextStr == \E e \in Exceptions : Str(e)

SpecStr == Init /\ [][NextStr]_vars

\* A job or the file store leaves something in a directory of the worker.
WorkerWrites(path, entry) ==
    /\ fs[path].exists
    /\ entry \notin fs[path].entries
    /\ fs' = [ fs EXCEPT ![path].entries = @ \cup {entry} ]
    /\ outcome' = NoOutcome
    /\ UNCHANGED << maxCores, maxMemory, maxDisk, given, workDir, environment,
                    os_environ >>
    /\ UNCHANGED << busVars, jobVars, threadVars >>

\* BatchSystemSupport.workerCleanup(info) on a worker whose workflow and
\* coordination directories exist; shutdownFileStore removes the cache from
\* the workflow directory or leaves it.
WorkerCleanup(info, cache_removed) ==
    /\ fs[workflowDir].exists
    /\ fs[info.coordination_dir].exists
    /\ LET shut == IF cache_removed
                   THEN [ fs EXCEPT ![workflowDir].entries = @ \ {cacheDirName} ]
                   ELSE fs
       IN  fs' = workerCleanup(fs, shut, info)
    /\ outcome' = [ op |-> "workerCleanup", arg |-> info,
                    result |-> Returned(FALSE), before |-> fs, value |-> << >> ]
    /\ UNCHANGED << maxCores, maxMemory, maxDisk, given, workDir, environment,
                    os_environ >>
    /\ UNCHANGED << busVars, jobVars, threadVars >>

\* A worker with anything in its two directories.
NewWorker ==
    /\ maxCores = MaxCeiling
    /\ maxMemory = MaxCeiling
    /\ maxDisk = MaxCeiling
    /\ given = << maxCores, maxMemory, maxDisk >>
    /\ workDir = "None"
    /\ environment = << >>
    /\ os_environ = << >>
    /\ fs \in [ Paths -> Dirs ]
    /\ outcome = NoOutcome

InitCleanup == BusInit /\ NewWorker /\ JobsIdle /\ ThreadsIdle

\* The directories of one worker: jobs write, the batch system cleans up.
NextCleanup ==
    \/ \E path \in Paths, entry \in Entries : WorkerWrites(path, entry)
    \/ \E info \in WorkerCleanupInfos, cache_removed \in BOOLEAN :
           WorkerCleanup(info, cache_removed)

SpecCleanup == InitCleanup /\ [][NextCleanup]_vars

\* The environment map of one batch system while the environment of the
\* leader process changes.
NextEnv ==
    \/ \E name \in Names, value \in Values \cup {"None"} : SetEnv(name, value)
    \/ \E name \in Names, value \in Values : Putenv(name, value)
    \/ \E name \in Names : Unsetenv(name)

InitEnv == BusInit /\ NewBatchSystemInEnv /\ JobsIdle /\ ThreadsIdle

SpecEnv == InitEnv /\ [][NextEnv]_vars

\* =============================================================== claims
Subscribed(c) == DOMAIN messages_by_type[c]

\* What the running iteration of c on T has yet to yield, the item at the
\* yield first.
InFlight(c, T) ==
    IF gen[c].state = "suspended" /\ gen[c].type = T
    THEN << gen[c].message >> \o Reverse(gen[c].message_list)
    ELSE << >>

\* The step is a publish; the message is the last of published'.
PublishStep == Len(published') = Len(published) + 1
Published == published'[Len(published')]

\* C1: for each subscribed type, the messages an inbox has yielded and had
\* confirmed (in the order it yielded them, over all for_each calls), followed
\* by those the running iteration is about to yield, followed by those still
\* queued, are in publish order: for_each yields oldest first.
C1_FifoPerType ==
    \A c \in Conns : \A T \in Subscribed(c) :
        StrictlyIncreasing(OfType(confirmed[c], T) \o InFlight(c, T)
                           \o messages_by_type[c][T])

\* Two messages of a type were yielded and confirmed and a later for_each call
\* is yielding a third one.
C1_Witness ==
    \E c \in Conns :
        /\ gen[c].state = "suspended"
        /\ gen[c].done = << >>
        /\ Len(OfType(confirmed[c], gen[c].type)) = 2

\* C2: after an iteration over a batch of N messages ended at a message that
\* was not handled, with M messages confirmed, the queue starts with the
\* N - M messages left (the unhandled one first, in their original order),
\* next come the messages published during that iteration; and the next
\* for_each on the type yields them in that order.
C2_RetryFirst ==
    \A c \in Conns : \A T \in Subscribed(c) :
        /\ (lastEnd[c][T].left # << >> /\ ~(gen[c].state = "suspended" /\ gen[c].type = T))
               => IsPrefix(lastEnd[c][T].left \o lastEnd[c][T].during,
                           messages_by_type[c][T])
        /\ (gen[c].state = "suspended" /\ gen[c].type = T /\ gen[c].expect.left # << >>)
               => IsPrefix(gen[c].expect.left \o gen[c].expect.during,
                           IterContent(gen[c]))

\* The iteration after a failed one has yielded all the failed batch left and
\* is at a message that was published during the failed batch, which had
\* confirmed at least one message.
C2_Witness ==
    \E c \in Conns :
        /\ gen[c].state = "suspended"
        /\ gen[c].expect.left # << >>
        /\ gen[c].done = gen[c].expect.left
        /\ gen[c].message \in Range(gen[c].expect.during)
        /\ Len(OfType(confirmed[c], gen[c].type)) > Len(gen[c].done)

\* C3: whenever no iteration is in progress, every message published to a
\* subscribed type since the inbox subscribed is either once in the queue of
\* its type and not confirmed, or confirmed once and not in the queue; and a
\* message at the yield has never been confirmed before.
C3_QueuedOrConfirmedOnce ==
    \A c \in Conns :
        /\ (life[c] \in {"live", "abandoned"} /\ gen[c].state # "suspended")
               => \A k \in DOMAIN published :
                      (published[k].type \in Subscribed(c) /\ k > subscribedAt[c])
                          => Count(published[k], messages_by_type[c][published[k].type])
                             + Count(published[k], confirmed[c]) = 1
        /\ gen[c].state = "suspended" => Count(gen[c].message, confirmed[c]) = 0

\* No iteration is in progress; the last one on some type ended at an unhandled
\* message after confirming one; messages are queued and confirmed.
C3_Witness ==
    \E c \in Conns : \E T \in Subscribed(c) :
        /\ gen[c].state = "none"
        /\ lastEnd[c][T].left # << >>
        /\ OfType(confirmed[c], T) # << >>
        /\ Len(messages_by_type[c][T]) >= 2

\* C4: an iteration yields no message published after it started; when it
\* ends, the messages of its type published while it ran are the tail of the
\* queue, in publish order; and the next iteration on the type has them in
\* its batch in that order, after what the ended iteration left.
C4_PublishedDuringIteration ==
    [][ \A c \in Conns :
          LET g == gen[c]
              h == gen'[c]
          IN  /\ h.state = "suspended"
                    => /\ \A m \in Range(IterContent(h)) : m.id <= h.startedAt
                       /\ IsPrefix(h.expect.left \o h.expect.during, h.atFirst)
              /\ (g.state = "suspended" /\ h.state = "none")
                    => IsSuffix(Between(g.type, g.startedAt, Len(published)),
                                messages_by_type'[c][g.type])
              /\ (g.state = "created" /\ h.state = "suspended")
                    => IterContent(h) = messages_by_type[c][g.type]
      ]_vars

\* An iteration is at a message that was published while the iteration before
\* it on that type was running.
C4_Witness ==
    \E c \in Conns :
        /\ gen[c].state = "suspended"
        /\ gen[c].message \in Range(gen[c].expect.during)

\* C5 as claimed: the batch of an iteration is the queue as it was when
\* for_each was called.
C5_BatchFixedAtCall ==
    \A c \in Conns :
        gen[c].state = "suspended" => IterContent(gen[c]) = gen[c].atCall

\* C5 as amended: the batch of an iteration is the queue as it was when the
\* first item was requested; what was published between the call of for_each
\* and that request is part of it.
C5_BatchFixedAtFirstRequest ==
    \A c \in Conns :
        gen[c].state = "suspended"
            => /\ IterContent(gen[c]) = gen[c].atFirst
               /\ IsPrefix(gen[c].atCall, gen[c].atFirst)

\* An iteration whose batch holds a message published after for_each was
\* called.
C5_Witness ==
    \E c \in Conns :
        /\ gen[c].state = "suspended"
        /\ gen[c].atFirst # gen[c].atCall
        /\ gen[c].atCall # << >>

\* C6: a publish of a message of type T leaves, in every inbox, the set of
\* queues and the content (so the count) of the queue of every other type as
\* they were.
C6_PublishOtherTypesUnchanged ==
    [][ PublishStep =>
          \A c \in Conns :
              /\ DOMAIN messages_by_type'[c] = DOMAIN messages_by_type[c]
              /\ \A U \in Subscribed(c) \ { Published.type } :
                     messages_by_type'[c][U] = messages_by_type[c][U]
      ]_vars

\* An inbox subscribed to both types holds a message of one type and the last
\* publish, of the other type, was queued.
C6_Witness ==
    \E c \in Conns : \E T, U \in Subscribed(c) :
        /\ T # U
        /\ messages_by_type[c][U] # << >>
        /\ messages_by_type[c][T] # << >>
        /\ published[Len(published)] \in Range(messages_by_type[c][T])

JobCompleted1 == [ type |-> "JobCompletedMessage", id |-> 1 ]
JobFailed2 == [ type |-> "JobFailedMessage", id |-> 2 ]

\* C7: every queue holds only messages of its key's type, an iteration holds
\* only messages of its type and the assertion of for_each has never failed;
\* and a connection subscribed to both types before a JobCompleted and then a
\* JobFailed message were published, having confirmed nothing, has count 1 for
\* each type, each message in or from the queue of its own type.
C7_QueuesHoldTheirType ==
    \A c \in Conns :
        /\ \A T \in Subscribed(c) : \A m \in Range(messages_by_type[c][T]) : m.type = T
        /\ \A m \in Range(IterContent(gen[c])) : m.type = gen[c].type
        /\ ~assertion_failed
        /\ ( /\ published = << JobCompleted1, JobFailed2 >>
             /\ life[c] = "live"
             /\ subscribedAt[c] = 0
             /\ Subscribed(c) = MessageTypes )
               => /\ (gen[c].state # "suspended" /\ confirmed[c] = << >>)
                        => /\ count(c, "JobCompletedMessage") = 1
                           /\ count(c, "JobFailedMessage") = 1
                  /\ \A T \in MessageTypes :
                        InFlight(c, T) \o messages_by_type[c][T]
                            \in { << >>, OfType(published, T) }

\* After one publish of each type the connection has drained the JobCompleted
\* queue and is at the JobFailed message of the JobFailed queue.
C7_Witness ==
    \E c \in Conns :
        /\ published = << JobCompleted1, JobFailed2 >>
        /\ subscribedAt[c] = 0
        /\ confirmed[c] = << JobCompleted1 >>
        /\ gen[c].state = "suspended"
        /\ gen[c].type = "JobFailedMessage"
        /\ gen[c].message = JobFailed2

\* The consumer o was called with the message of this publish step.
Notified(o) ==
    IF o \in Conns
    THEN Published.type \in DOMAIN messages_by_type[o]
         /\ messages_by_type'[o][Published.type]
                = Append(messages_by_type[o][Published.type], Published)
    ELSE received'[o] = Append(received[o], Published)

\* C8: when a listener raises during a publish, every listener registered for
\* the type of the message is still called with it.
C8_OthersNotifiedWhenOneRaises ==
    [][ (PublishStep /\ raised') =>
          \A o \in Range(ListenersOf(type_to_name(Published.type))) : Notified(o)
      ]_vars

\* C9: no publish delivers to a consumer whose owner has let go of it: the
\* queues of an abandoned connection and the calls of an abandoned handler
\* stay as they are.
C9_NothingDeliveredAfterAbandon ==
    [][ PublishStep =>
          /\ \A c \in Conns :
                 life[c] = "abandoned" => messages_by_type'[c] = messages_by_type[c]
          /\ \A h \in Handlers :
                 life[h] = "abandoned" => received'[h] = received[h]
      ]_vars

\* C10: a connection's queues, its iteration and its confirmed messages, and
\* the calls of a bare handler, hold only messages published after the
\* consumer subscribed.
C10_OnlyAfterSubscription ==
    /\ \A c \in Conns :
           /\ \A T \in Subscribed(c) : \A m \in Range(messages_by_type[c][T]) :
                  m.id > subscribedAt[c]
           /\ \A m \in Range(IterContent(gen[c])) \cup Range(confirmed[c]) :
                  m.id > subscribedAt[c]
    /\ \A h \in Handlers : \A m \in Range(received[h]) : m.id > subscribedAt[h]

\* A connection and a handler that subscribed to a type after a message of
\* that type was published have since got a later message of it.
C10_Witness ==
    \E c \in Conns, h \in Handlers : \E T \in Subscribed(c) :
        /\ subscribedAt[c] > 0
        /\ subscribedAt[h] > 0
        /\ published[1].type = T
        /\ messages_by_type[c][T] # << >>
        /\ received[h] # << >>
        /\ received[h][1].type = T

\* C11: count(T) and the first item request of for_each(T) on a connection
\* that has no queue for T raise KeyError: count returns no number, for_each
\* yields nothing and does not end as an empty iteration; and the step leaves
\* every queue of every inbox as it was.
C11_UnregisteredTypeFails ==
    [][ \A c \in Conns :
          ( /\ call'.on = c
            /\ call'.op \in {"count", "for_each"}
            /\ call'.type \notin DOMAIN messages_by_type[c] )
              => /\ call'.error = "KeyError"
                 /\ messages_by_type' = messages_by_type
                 /\ lastEnd' = lastEnd
                 /\ call'.op = "for_each" => gen'[c] = NoGen
      ]_vars

\* The first item request of for_each on a type the connection has no queue
\* for has raised KeyError while the connection holds messages of the type it
\* subscribed to.
C11_Witness ==
    \E c \in Conns : \E T \in Subscribed(c) :
        /\ call.on = c
        /\ call.op = "for_each"
        /\ call.type \notin Subscribed(c)
        /\ call.error = "KeyError"
        /\ Len(messages_by_type[c][T]) >= 2

\* C12: publish on an outbox or connection whose _bus is None raises
\* RuntimeError and nothing is published, queued or handed to a handler; on
\* one that is bound the step is a publish of the bus with that message.
C12_OutboxPublish ==
    [][ \A o \in Outboxes \cup Conns :
          (call'.op = "publish" /\ call'.on = o)
              => IF bus_of[o] = "None"
                 THEN /\ call'.error = "RuntimeError"
                      /\ published' = published
                      /\ messages_by_type' = messages_by_type
                      /\ received' = received
                 ELSE /\ call'.error = "none"
                      /\ publish(call'.type, {})
      ]_vars

\* A message published through a bound outbox is in the queue of a
\* connection, after a publish through the outbox failed before it was bound.
C12_Witness ==
    \E o \in Outboxes, c \in Conns :
        /\ call.op = "publish"
        /\ call.on = o
        /\ call.error = "none"
        /\ published # << >>
        /\ call.type \in Subscribed(c)
        /\ published[Len(published)] \in Range(messages_by_type[c][call.type])

\* The last call was check_resource_request.
Checked == outcome.op = "check_resource_request"

\* The ceiling that the check compares a resource with.
CeilingOf(resource) ==
    CASE resource = "cores" -> maxCores
      [] resource = "memory" -> maxMemory
      [] resource = "disk" -> maxDisk

\* The resources of the descriptor that are above their ceiling.
Over(requirer) ==
    { resource \in {"cores", "memory", "disk"} :
          requirer[resource] > CeilingOf(resource) }

\* C13: check_resource_request returns normally for a descriptor whose cores,
\* memory and disk equal the ceilings and that asks for no accelerators; and
\* with maxCores 2, requests for 1 and for 2 cores (memory and disk within
\* their ceilings, no accelerators) return normally.
C13_AdmitsUpToCeilings ==
    Checked =>
        LET requirer == outcome.arg
        IN  /\ ( /\ requirer.cores = maxCores
                 /\ requirer.memory = maxMemory
                 /\ requirer.disk = maxDisk
                 /\ requirer.accelerators = << >> )
                   => outcome.result.kind = "returned"
            /\ ( /\ maxCores = 2
                 /\ requirer.cores \in {1, 2}
                 /\ Over(requirer) = {}
                 /\ requirer.accelerators = << >> )
                   => outcome.result.kind = "returned"

\* C14: whenever cores, memory or disk of the descriptor is above its
\* ceiling, by one unit or more, check_resource_request raises
\* InsufficientSystemResources, whose resource is one that is above its
\* ceiling, whose requested is the amount asked for it and whose available is
\* its ceiling.
C14_RejectsAboveCeiling ==
    (Checked /\ Over(outcome.arg) # {}) =>
        LET e == outcome.result
        IN  /\ e.kind = "InsufficientSystemResources"
            /\ e.resource \in Over(outcome.arg)
            /\ e.requested = outcome.arg[e.resource]
            /\ e.available = CeilingOf(e.resource)

\* A descriptor with memory one unit above the ceiling, and cores and disk at
\* their ceilings, was rejected for memory.
C14_Witness ==
    /\ Checked
    /\ outcome.arg.cores = maxCores
    /\ outcome.arg.disk = maxDisk
    /\ outcome.arg.memory = maxMemory + 1
    /\ outcome.result.kind = "InsufficientSystemResources"
    /\ outcome.result.resource = "memory"
    /\ outcome.result.requested = maxMemory + 1
    /\ outcome.result.available = maxMemory

\* C15: a descriptor that asks for accelerators, with cores, memory and disk
\* within their ceilings, is rejected with InsufficientSystemResources for
\* "accelerators" with nothing available.
C15_AcceleratorsRejected ==
    (Checked /\ Over(outcome.arg) = {} /\ outcome.arg.accelerators # << >>) =>
        /\ outcome.result.kind = "InsufficientSystemResources"
        /\ outcome.result.resource = "accelerators"
        /\ outcome.result.available = << >>

\* C16: for every descriptor that is to be rejected (a resource above its
\* ceiling, or accelerators asked for), what the call raises carries the
\* backend's class name as batch_system, and as source the working directory
\* when the resource is disk and nothing otherwise.
C16_DiagnosticNamesBackend ==
    (Checked /\ (Over(outcome.arg) # {} \/ outcome.arg.accelerators # << >>)) =>
        /\ outcome.result.batch_system = ClassName
        /\ outcome.result.source =
               IF outcome.result.resource = "disk" THEN workDir ELSE "None"

\* C17: after any sequence of admission checks the ceilings are the ones the
\* batch system was made with.
C17_CeilingsUnchanged == << maxCores, maxMemory, maxDisk >> = given

\* A check has rejected a descriptor on a batch system whose ceilings for cores
\* and memory differ.
C17_Witness ==
    /\ Checked
    /\ outcome.result.kind = "InsufficientSystemResources"
    /\ outcome.arg.cores > 0
    /\ maxCores # maxMemory

\* C18: after setEnv(name) without a value, if name is in the environment of
\* the process the map holds that value for name, whatever it held before,
\* and is otherwise as before; if name is not, the call has raised and the
\* map is as it was before the call.
C18_SetEnvFromAmbient ==
    (outcome.op = "setEnv" /\ outcome.arg.value = "None") =>
        LET name == outcome.arg.name
        IN  IF name \in DOMAIN os_environ
            THEN /\ outcome.result.kind = "returned"
                 /\ DOMAIN environment = DOMAIN outcome.before \cup {name}
                 /\ environment[name] = os_environ[name]
                 /\ \A n \in DOMAIN outcome.before \ {name} :
                        environment[n] = outcome.before[n]
            ELSE /\ outcome.result.kind = "RuntimeError"
                 /\ environment = outcome.before

\* setEnv(name) without a value has raised for a name that is not in the
\* environment of the process; the map still holds the earlier value of that
\* name and the value of the other name.
C18_Witness ==
    /\ outcome.op = "setEnv"
    /\ outcome.arg.value = "None"
    /\ outcome.result.kind = "RuntimeError"
    /\ outcome.arg.name \in DOMAIN environment
    /\ DOMAIN environment = Names

\* C19: getUpdatedBatchJob never returns the ID it has returned before; and
\* every job that has finished is in the end returned, unless it is given to
\* killBatchJobs before it is returned.
C19_ReportedExactlyOnce ==
    /\ [](\A i, k \in DOMAIN returned : returned[i] = returned[k] => i = k)
    /\ \A j \in 1..MaxJobs :
           (j \in DOMAIN job_state /\ job_state[j] = "finished")
               ~> (j \in Range(returned) \/ j \in DOMAIN killed)

\* Two jobs were returned and a third one was killed without having been
\* returned.
C19_Witness ==
    /\ Len(returned) = 2
    /\ \E j \in DOMAIN killed : job_state[j] = "killed" /\ j \notin Range(returned)

\* C20: no ID that was given to killBatchJobs is among the running jobs, and
\* none is returned by getUpdatedBatchJob after the kill.
C20_KilledNotReported ==
    \A j \in DOMAIN killed :
        /\ j \notin getRunningBatchJobIDs
        /\ \A k \in DOMAIN returned : k > killed[j] => returned[k] # j

\* A job was killed after one job had been returned, and another job was
\* returned after the kill.
C20_Witness ==
    \E j \in DOMAIN killed :
        /\ killed[j] = 1
        /\ job_state[j] = "killed"
        /\ Len(returned) = 2

\* C24: when one or more of cores, memory and disk are above their ceilings,
\* the exception names the first of them in the order cores, memory, disk;
\* and _check_accelerator_request is called exactly when none is above its
\* ceiling.
C24_FirstOverInOrder ==
    Checked =>
        LET over == Over(outcome.arg)
            first == IF "cores" \in over THEN "cores"
                     ELSE IF "memory" \in over THEN "memory" ELSE "disk"
        IN  /\ over # {} => outcome.result.resource = first
            /\ outcome.result.hook <=> over = {}

\* Memory and disk were both above their ceilings, cores was not, and the
\* exception names memory; the hook was not called.
C24_Witness ==
    /\ Checked
    /\ Over(outcome.arg) = {"memory", "disk"}
    /\ outcome.result.resource = "memory"
    /\ ~outcome.result.hook

\* The last call was workerCleanup.
Cleaned == outcome.op = "workerCleanup"

\* C21 as claimed: after workerCleanup, each of the two directories is gone
\* only if its content was nothing or only the cache entry, and under the
\* policy "never" both directories are still there.
C21_RemovedOnlyIfClean ==
    Cleaned =>
        /\ \A path \in { workflowDir, outcome.arg.coordination_dir } :
               ~fs[path].exists
                   => outcome.before[path].entries \in { {}, {cacheDirName} }
        /\ outcome.arg.clean_work_dir = "never"
               => \A path \in Paths : fs[path].exists

\* C21 as amended: the workflow directory is gone exactly when the policy is
\* not "never" and its content was nothing or only the cache entry, otherwise
\* it is there with everything but the cache entry still in it; a coordination
\* directory that is another directory is gone exactly when the policy is not
\* "never", whatever was in it.
C21_CoordinationRemovedAnyway ==
    Cleaned =>
        LET before == outcome.before
            policy == outcome.arg.clean_work_dir
            coordination_dir == outcome.arg.coordination_dir
        IN  /\ ~fs[workflowDir].exists
                   <=> /\ policy # "never"
                       /\ before[workflowDir].entries \in { {}, {cacheDirName} }
            /\ fs[workflowDir].exists
                   => before[workflowDir].entries \ {cacheDirName}
                          \subseteq fs[workflowDir].entries
            /\ coordination_dir # workflowDir
                   => (~fs[coordination_dir].exists <=> policy # "never")

\* Under the policy "onError" the workflow directory, which held a job's
\* files, is still there with them, and the coordination directory, another
\* directory that held a job's files too, is gone.
C21_Witness ==
    /\ Cleaned
    /\ outcome.arg.clean_work_dir = "onError"
    /\ outcome.arg.coordination_dir # workflowDir
    /\ "job" \in outcome.before[workflowDir].entries
    /\ "job" \in outcome.before[outcome.arg.coordination_dir].entries
    /\ "job" \in fs[workflowDir].entries
    /\ ~fs[outcome.arg.coordination_dir].exists

\* C22: str(e) of an admission-failure exception returns, for every resource,
\* with or without a job name, a requested amount, a ceiling, a backend name
\* and details, the text of the documented form.
C22_StrRendersDiagnostic ==
    outcome.op = "__str__" =>
        /\ outcome.result.kind = "returned"
        /\ outcome.value = text(outcome.arg)

\* C23: decode_bus_messages returns an inbox whose queue of each wanted type
\* holds the complete messages of that type of the stream, in the stream's
\* order, whether or not a partial record trails them.
C23_DecodedInboxHoldsStream ==
    call.op = "decode_bus_messages" =>
        /\ call.error = "none"
        /\ LET records == call.arg[1].records
               logged == [ k \in DOMAIN records |->
                             [ type |-> records[k], id |-> k ] ]
           IN  call.inbox = [ T \in Range(call.arg[2]) |-> OfType(logged, T) ]

\* C25: when the first item of c.for_each(T) is requested while c's queue
\* for T is empty, the iteration ends without having yielded and no queue and
\* no list of handled messages changes; and c.empty() returns true exactly
\* when each of c's queues has length 0.
C25_NothingPendingNothingYielded ==
    [][ /\ \A c \in Conns :
              ( /\ gen[c].state = "created"
                /\ gen[c].type \in DOMAIN messages_by_type[c]
                /\ messages_by_type[c][gen[c].type] = << >>
                /\ call'.op = "for_each"
                /\ call'.on = c )
              => /\ gen'[c].state = "none"
                 /\ messages_by_type' = messages_by_type
                 /\ confirmed' = confirmed
        /\ call'.op = "empty"
              => ( call'.value
                     <=> \A T \in DOMAIN messages_by_type'[call'.on] :
                            Len(messages_by_type'[call'.on][T]) = 0 )
      ]_vars

\* The first item of an iteration over an empty queue was requested and the
\* iteration is over, while the connection's other queue holds a message.
C25_Witness ==
    \E c \in Conns :
        /\ call.op = "for_each"
        /\ call.on = c
        /\ call.error = "none"
        /\ gen[c].state = "none"
        /\ messages_by_type[c][call.type] = << >>
        /\ \E T \in DOMAIN messages_by_type[c] : messages_by_type[c][T] # << >>

\* C26: when an iteration of c.for_each(T) is ended at a yield with no error
\* (the generator is closed or dropped), the queue for T is then the item that
\* was being handled, followed by the items of the batch not yet yielded in
\* their original order, followed by the messages of type T published since
\* the iteration began; nothing is added to the handled messages.
C26_EarlyEndPutsBack ==
    [][ \A c \in Conns :
          ( /\ gen[c].state = "suspended"
            /\ gen'[c].state = "none"
            /\ confirmed'[c] = confirmed[c] )
          => LET g == gen[c]
                 unhandled == SubSeq(g.atFirst, Len(g.done) + 1, Len(g.atFirst))
             IN  /\ Head(unhandled) = g.message
                 /\ messages_by_type'[c][g.type]
                        = unhandled \o Between(g.type, g.startedAt, Len(published))
      ]_vars

\* An iteration was ended early with two items of its batch unhandled while
\* a message of its type had been published during it: the queue holds the
\* two items ahead of that message.
C26_Witness ==
    \E c \in Conns : \E T \in Subscribed(c) :
        /\ gen[c].state = "none"
        /\ Len(lastEnd[c][T].left) >= 2
        /\ lastEnd[c][T].during # << >>
        /\ messages_by_type[c][T] = lastEnd[c][T].left \o lastEnd[c][T].during

\* C27: an iteration at a yield has yielded, with the item being handled and
\* the items it has still to yield, exactly as many messages as were pending
\* when its first item was requested, whatever was published meanwhile; and
\* an iteration whose consumer keeps asking for items comes to its end.
C27_IterationTerminates ==
    /\ [](\A c \in Conns :
             gen[c].state = "suspended"
                 => Len(gen[c].done) + 1 + Len(gen[c].message_list)
                        = Len(gen[c].atFirst))
    /\ \A c \in Conns : (gen[c].state # "none") ~> (gen[c].state = "none")

\* An iteration over two messages ran to its end, each of them handled, while
\* a message of its type was published during it: that message waits in the
\* queue.
C27_Witness ==
    \E c \in Conns : \E T \in Subscribed(c) :
        /\ gen[c].state = "none"
        /\ lastEnd[c][T].left = << >>
        /\ lastEnd[c][T].during # << >>
        /\ Len(OfType(confirmed[c], T)) >= 2
        /\ messages_by_type[c][T] = lastEnd[c][T].during

\* C28: a publish appends its message once, at the tail, to the queue of its
\* type of every inbox that is subscribed to the type at that moment, and
\* leaves the queues of every other inbox as they were; and a step of an
\* iteration of one inbox (an item yielded, handled and confirmed, or put back)
\* leaves the queues and the handled messages of every other inbox as they
\* were.
C28_EachInboxItsOwnQueue ==
    [][ /\ PublishStep =>
              \A c \in Conns :
                  messages_by_type'[c] =
                      IF Published.type \in Subscribed(c)
                      THEN [ messages_by_type[c] EXCEPT
                               ![Published.type] = Append(@, Published) ]
                      ELSE messages_by_type[c]
        /\ \A c \in Conns :
              gen'[c] # gen[c] =>
                  \A d \in Conns \ {c} :
                      /\ messages_by_type'[d] = messages_by_type[d]
                      /\ confirmed'[d] = confirmed[d]
      ]_vars

\* Two inboxes subscribed to one type both got its two messages: the first
\* has handled one of them and put the other back, the second still holds
\* both in its queue.
C28_Witness ==
    \E T \in Subscribed("c1") \cap Subscribed("c2") :
        /\ Len(OfType(published, T)) = 2
        /\ gen["c1"].state = "none"
        /\ Len(confirmed["c1"]) = 1
        /\ Len(lastEnd["c1"][T].left) = 1
        /\ messages_by_type["c1"][T] = lastEnd["c1"][T].left
        /\ messages_by_type["c2"][T] = OfType(published, T)

\* C30: of every message of a type that a connection wanted, published since
\* the connection was made, the connection holds exactly one copy: in the
\* queue of the type, in the iteration that runs, or among the messages it has
\* handled; also when the list given to connect named the type more than once.
C30_OnceWhenTypeRepeated ==
    \A c \in Conns : \A T \in Subscribed(c) :
        \A m \in Range(Between(T, subscribedAt[c], Len(published))) :
            Count(m, confirmed[c] \o InFlight(c, T) \o messages_by_type[c][T]) = 1

\* C29: whenever no iteration of an inbox is at a yield, each queue of the
\* inbox lists its messages in publish order; also after two iterations over
\* one type that overlapped have ended, in whichever order.
C29_OrderKeptWhenOverlapping ==
    \A c \in Conns :
        (\A i \in Gens : inbox_of(i) = c => gen[i].state # "suspended")
            => \A T \in Subscribed(c) : StrictlyIncreasing(messages_by_type[c][T])

\* C31: while an iteration of c.for_each(T) is at a yield, c.count(T) is the
\* number of messages of type T published since the first item was requested,
\* the batch not being counted; and when the iteration ends, c.count(T) is
\* that number plus the number of messages of the batch that were not handled.
C31_BatchNotCountedWhileIterating ==
    [][ \A c \in Conns :
          LET g == gen[c]
              since == Len(OfType(SubSeq(published', g.startedAt + 1,
                                         Len(published')), g.type))
          IN  /\ gen'[c].state = "suspended"
                    => Len(messages_by_type'[c][gen'[c].type])
                           = Len(OfType(SubSeq(published', gen'[c].startedAt + 1,
                                               Len(published')), gen'[c].type))
              /\ ( g.state = "suspended" /\ gen'[c].state = "none" )
                    => Len(messages_by_type'[c][g.type])
                           = since + Len(g.atFirst)
                                 - Len(OfType(confirmed'[c], g.type))
                                 + Len(OfType(confirmed[c], g.type))
                                 - Len(g.done)
      ]_vars

\* An iteration is at a yield with an item of its batch still to come while
\* every queue of the inbox is empty: empty() is true and count is 0.
C31_Witness ==
    \E c \in Conns :
        /\ gen[c].state = "suspended"
        /\ gen[c].message_list # << >>
        /\ empty(messages_by_type[c])
        /\ count(c, gen[c].type) = 0

\* The messages whose append has run.
Appended == 1..publisher.sent \ { publisher.m }

\* The messages in the queue, in the list of the iteration, at its yield, or
\* handled.
Kept ==
    Range(lists[slot])
        \cup (IF iterator.message_list = "None" THEN {}
              ELSE Range(lists[iterator.message_list]))
        \cup (IF iterator.sum = "None" THEN {} ELSE Range(lists[iterator.sum]))
        \cup (IF iterator.pc = "yielded" THEN { iterator.message } ELSE {})
        \cup acknowledged

\* A published message is nowhere.
Lost == Appended \ Kept # {}

\* The message at the yield is newer than a message not yet handled.
YieldedAhead ==
    /\ iterator.pc = "yielded"
    /\ \E m \in Appended \ acknowledged : m < iterator.message

\* C32: when the callers let one publish or one request for an item run at a
\* time, no published message is ever nowhere and none is yielded ahead of an
\* older message that is not handled.
C32_SerialisedKeepsMessages ==
    serialised => ~Lost /\ ~YieldedAhead

\* Without serialisation a published message is nowhere: its append went to a
\* list that is no longer the queue nor the list of an iteration.
C32_Witness ==
    /\ ~serialised
    /\ Lost
    /\ publisher.pc = "idle"
    /\ iterator.pc = "idle"

====
